---- MODULE Spec2Model ----
(***************************************************************************)
(* Model of pty-process's Command builder (src/src/command.rs): a wrapper  *)
(* around async_process::Command that attaches a pty to the child's stdio  *)
(* and installs a session-leader pre-exec hook at spawn time.              *)
(***************************************************************************)
EXTENDS Integers, Sequences, FiniteSets, TLC

\* ------------------------------------------------------------------ bounds
MaxSpawn == 2      \* spawn calls made on one builder
MaxReg   == 2      \* pre_exec registrations made on one builder
NumPty   == 2      \* distinct ptys a caller may pass to spawn
MaxCfg   == 1      \* pass-through configuration calls made on one builder

Ptys    == 1..NumPty
FnIds   == 1..MaxReg                 \* identity of each registered closure
UserCfg == {"null"}                  \* non-pty Stdio a caller passes
Streams == {"stdin", "stdout", "stderr"}
ArgVals == {"a"}                     \* argument strings a caller passes
EnvKeys == {"K"}                     \* environment variable names
EnvVals == {"v"}                     \* environment variable values
Dirs    == {"d"}                     \* working directories
Ids     == {1000}                    \* uid / gid values

\* ------------------------------------------------------------------- state
VARIABLES
    stdin, stdout, stderr,   \* Command.stdin / stdout / stderr flags
    pre_exec_set,            \* Command.pre_exec_set
    pre_exec,                \* Command.pre_exec : Option<Box<dyn FnMut>>
    inner,                   \* Command.inner : async_process::Command
    call,                    \* what the latest spawn call did
    ret,                     \* what the latest spawn call returned
    err,                     \* the error value it returned, if any
    child,                   \* the process the latest spawn call forked
    nspawn, nreg, ncfg,      \* calls made so far
    npast,                   \* spawn calls that got past stdio-handle
                             \* derivation
    invoked,                 \* user closures that ever ran in some child
    since,                   \* closures registered since the last spawn
                             \* that got past stdio-handle derivation
    replaced                 \* closures registered, then registered over
                             \* before such a spawn

vars == <<stdin, stdout, stderr, pre_exec_set, pre_exec, inner, call,
          ret, err, child, nspawn, nreg, ncfg, npast, invoked, since,
          replaced>>

\* Option::None for the pending closure; Some(f) is the closure's id.
None == 0

\* std::process::Stdio values held by the delegate for one stream.
\* dup tells apart the descriptors duplicated by different spawn calls.
Inherit        == [kind |-> "inherit", pty |-> 0, dup |-> 0]
UserStdio(c)   == [kind |-> c, pty |-> 0, dup |-> 0]
PtyStdio(p, n) == [kind |-> "pty", pty |-> p, dup |-> n]

\* The closures handed to the delegate's pre_exec.
SessionLeader(pts) ==
    [kind |-> "session_leader", pts |-> pts, custom |-> None]
Composed(pts, custom) ==
    [kind |-> "composed", pts |-> pts, custom |-> custom]

\* One call made in the child between fork and exec.
Ev(hook, fn, arg, ok) == [hook |-> hook, fn |-> fn, arg |-> arg, ok |-> ok]

NoChild ==
    [exists |-> FALSE, trace |-> <<>>, leader |-> FALSE, ctty |-> 0,
     execd |-> FALSE, stdin |-> Inherit, stdout |-> Inherit,
     stderr |-> Inherit]

\* A failure reported by a collaborator: who reported it, which call failed
\* and, for a pre-exec closure, which installed closure made the call.
Failure(from, fn, hook) == [from |-> from, fn |-> fn, hook |-> hook]
NoFailure    == Failure("none", "none", 0)
SetupFailure == Failure("setup_subprocess", "dup", 0)

\* The crate's Error built by `?` from a collaborator's error.
FromErr(e) == [kind |-> "Io", source |-> e]
NoErr      == [kind |-> "none", source |-> NoFailure]

NoCall ==
    [pty |-> 0, custom |-> None, stdio |-> {}, hooks |-> 0,
     delegated |-> FALSE]

\* --------------------------------------------------------------- Command::new
Init ==
    /\ stdin = FALSE
    /\ stdout = FALSE
    /\ stderr = FALSE
    /\ pre_exec_set = FALSE
    /\ pre_exec = None
    /\ inner = [stdin |-> Inherit, stdout |-> Inherit, stderr |-> Inherit,
                pre_exec |-> <<>>,
                args |-> <<>>, arg0 |-> "unset",
                env_clear |-> FALSE, env |-> [k \in EnvKeys |-> "unset"],
                cwd |-> "unset", uid |-> 0, gid |-> 0]
    /\ call = NoCall
    /\ ret = "none"
    /\ err = NoErr
    /\ child = NoChild
    /\ nspawn = 0
    /\ nreg = 0
    /\ ncfg = 0
    /\ npast = 0
    /\ invoked = {}
    /\ since = {}
    /\ replaced = {}

\* ------------------------------------------------- explicit stdio operations
Stdin(cfg) ==
    /\ stdin' = TRUE
    /\ inner' = [inner EXCEPT !.stdin = UserStdio(cfg)]
    /\ UNCHANGED <<stdout, stderr, pre_exec_set, pre_exec, call, ret, err, child,
                   nspawn, nreg, ncfg, npast, invoked, since, replaced>>

\* (a stdout that sets the stdin flag)
StdoutSetsStdin(cfg) ==
    /\ stdin' = TRUE
    /\ inner' = [inner EXCEPT !.stdout = UserStdio(cfg)]
    /\ UNCHANGED <<stdout, stderr, pre_exec_set, pre_exec, call, ret, err,
                   child, nspawn, nreg, ncfg, npast, invoked, since,
                   replaced>>

Stdout(cfg) ==
    /\ stdout' = TRUE
    /\ inner' = [inner EXCEPT !.stdout = UserStdio(cfg)]
    /\ UNCHANGED <<stdin, stderr, pre_exec_set, pre_exec, call, ret, err, child,
                   nspawn, nreg, ncfg, npast, invoked, since, replaced>>

Stderr(cfg) ==
    /\ stderr' = TRUE
    /\ inner' = [inner EXCEPT !.stderr = UserStdio(cfg)]
    /\ UNCHANGED <<stdin, stdout, pre_exec_set, pre_exec, call, ret, err, child,
                   nspawn, nreg, ncfg, npast, invoked, since, replaced>>

\* ------------------------------------------------------- Command::pre_exec
\* (a pre_exec that keeps the closure already pending)
PreExecKeepFirst(f) ==
    /\ nreg < MaxReg
    /\ f = nreg + 1
    /\ pre_exec' = IF pre_exec # None THEN pre_exec ELSE f
    /\ replaced' = replaced \cup since
    /\ since' = {f}
    /\ nreg' = nreg + 1
    /\ UNCHANGED <<stdin, stdout, stderr, pre_exec_set, inner, call, ret,
                   err, child, nspawn, ncfg, npast, invoked>>

PreExec(f) ==
    /\ nreg < MaxReg
    /\ f = nreg + 1
    /\ pre_exec' = f
    /\ replaced' = replaced \cup since
    /\ since' = {f}
    /\ nreg' = nreg + 1
    /\ UNCHANGED <<stdin, stdout, stderr, pre_exec_set, inner, call, ret,
                   err, child, nspawn, ncfg, npast, invoked>>

\* ------------------------------------------- crate::sys (external OS layer)
\* setup_subprocess(pts): three Stdio handles duplicated from the pty's
\* slave descriptor, one per stream; n numbers the call that duplicates.
SetupSubprocess(pts, n) ==
    [stdin |-> PtyStdio(pts, n), stdout |-> PtyStdio(pts, n),
     stderr |-> PtyStdio(pts, n)]

\* ---------------------------------- the delegate, async_process::Command
\* Command::stdin / stdout / stderr of the delegate: store the Stdio.
InnerStdio(in, stream, h) == [in EXCEPT ![stream] = h]

\* CommandExt::pre_exec of the delegate: closures accumulate and are kept
\* in registration order.
InnerPreExec(in, closure) ==
    [in EXCEPT !.pre_exec = Append(in.pre_exec, closure)]

\* One installed closure running in the child.  slFails / customFails say
\* whether session_leader() resp. custom() returns Err when it is called.
\* (a composed closure that calls custom() whatever session_leader() returns)
RunClosureNoReturn(hook, c, slFails, customFails) ==
    IF c.kind = "composed"
    THEN <<Ev(hook, "session_leader", c.pts, ~slFails),
           Ev(hook, "custom", c.custom, ~customFails)>>
    ELSE <<Ev(hook, "session_leader", c.pts, ~slFails)>>

\* (a composed closure that calls custom() before session_leader())
RunClosureUserFirst(hook, c, slFails, customFails) ==
    IF c.kind = "composed"
    THEN IF customFails
         THEN <<Ev(hook, "custom", c.custom, FALSE)>>
         ELSE <<Ev(hook, "custom", c.custom, TRUE),
                Ev(hook, "session_leader", c.pts, ~slFails)>>
    ELSE <<Ev(hook, "session_leader", c.pts, ~slFails)>>

RunClosure(hook, c, slFails, customFails) ==
    IF c.kind = "composed"
    THEN IF slFails
         THEN <<Ev(hook, "session_leader", c.pts, FALSE)>>
         ELSE <<Ev(hook, "session_leader", c.pts, TRUE),
                Ev(hook, "custom", c.custom, ~customFails)>>
    ELSE <<Ev(hook, "session_leader", c.pts, ~slFails)>>

ClosureOk(tr) == tr[Len(tr)].ok

\* The delegate's child runs the installed closures in order and stops at
\* the first one that returns Err.
RECURSIVE RunHooks(_, _, _, _)
RunHooks(hooks, j, slBad, customBad) ==
    IF j > Len(hooks) THEN <<>>
    ELSE LET tr == RunClosure(j, hooks[j], j \in slBad, j \in customBad)
         IN  IF ClosureOk(tr)
             THEN tr \o RunHooks(hooks, j + 1, slBad, customBad)
             ELSE tr

TraceOk(tr) == \A i \in DOMAIN tr : tr[i].ok

\* Effect of the session-leader closures that succeeded: the child leads a
\* session and its controlling terminal is the pts of the latest one.
RECURSIVE Ctty(_)
Ctty(tr) ==
    IF tr = <<>> THEN 0
    ELSE LET e == tr[Len(tr)]
         IN  IF e.fn = "session_leader" /\ e.ok THEN e.arg
             ELSE Ctty(SubSeq(tr, 1, Len(tr) - 1))

Customs(tr) == {tr[i].arg : i \in {k \in DOMAIN tr : tr[k].fn = "custom"}}

\* Command::spawn of the delegate.  sys is the outcome of the fork/exec
\* syscalls themselves; a closure that fails keeps the child from exec and
\* makes spawn return the error.
InnerSpawnChild(in, sys, slBad, customBad) ==
    IF sys = "fork" THEN NoChild
    ELSE LET tr == RunHooks(in.pre_exec, 1, slBad, customBad)
         IN  [exists |-> TRUE, trace |-> tr,
              leader |-> Ctty(tr) # 0, ctty |-> Ctty(tr),
              execd |-> TraceOk(tr) /\ sys = "ok",
              stdin |-> in.stdin, stdout |-> in.stdout,
              stderr |-> in.stderr]

\* (a spawn that hands the child back whatever the delegate reported)
InnerSpawnRetSwallow(c) == "Ok"

InnerSpawnRet(c) == IF c.exists /\ c.execd THEN "Ok" ELSE "ErrSpawn"

\* The error the delegate's spawn returns for a child that did not exec:
\* the fork error, the Err of the closure that stopped the child, or the
\* exec error.
InnerSpawnErr(c) ==
    IF ~c.exists THEN Failure("inner.spawn", "fork", 0)
    ELSE IF ~TraceOk(c.trace)
         THEN LET e == c.trace[Len(c.trace)]
              IN  Failure("inner.spawn", e.fn, e.hook)
         ELSE Failure("inner.spawn", "exec", 0)

\* What the operating system may do to one spawn: fork fails, exec fails,
\* or both work.
SysOutcomes == {"ok", "fork", "exec"}

\* Which calls made by the installed closures return Err.  The child stops
\* at the first Err, so one failing call per run covers every run.
HookOutcomes(in) ==
    LET n == Len(in.pre_exec)
    IN  {<<{}, {}>>}
        \cup {<<{j}, {}>> : j \in 1..n}
        \cup {<<{}, {j}>> : j \in {k \in 1..n :
                                     in.pre_exec[k].kind = "composed"}}

\* ----------------------------------------------------------- Command::spawn
\* Stdio defaulting: a stream takes the pty handle unless its flag is set.
\* (a defaulting that ignores the flag)
DefaultStdioAlways(in, flag, stream, h) == InnerStdio(in, stream, h)

DefaultStdio(in, flag, stream, h) ==
    IF ~flag THEN InnerStdio(in, stream, h) ELSE in

ApplyStdio(in, pts) ==
    LET h  == SetupSubprocess(pts, nspawn + 1)
        i1 == DefaultStdio(in, stdin, "stdin", h.stdin)
        i2 == DefaultStdio(i1, stdout, "stdout", h.stdout)
    IN  DefaultStdio(i2, stderr, "stderr", h.stderr)

\* Pre-exec composition: pending is self.pre_exec.take().
\* (a composition that installs nothing once the flag is set)
ComposePreExecOnce(in, pts, pending, set) ==
    IF set THEN in
    ELSE IF pending # None
         THEN InnerPreExec(in, Composed(pts, pending))
         ELSE InnerPreExec(in, SessionLeader(pts))

\* (a composition that installs session_leader on every spawn)
ComposePreExecAlways(in, pts, pending, set) ==
    IF pending # None
    THEN InnerPreExec(in, Composed(pts, pending))
    ELSE InnerPreExec(in, SessionLeader(pts))

\* (a composition that tests the flag the wrong way round)
ComposePreExecInverted(in, pts, pending, set) ==
    IF pending # None
    THEN InnerPreExec(in, Composed(pts, pending))
    ELSE IF set
         THEN InnerPreExec(in, SessionLeader(pts))
         ELSE in

ComposePreExec(in, pts, pending, set) ==
    IF pending # None
    THEN InnerPreExec(in, Composed(pts, pending))
    ELSE IF ~set
         THEN InnerPreExec(in, SessionLeader(pts))
         ELSE in

\* Option::take: the value moved out and what stays in the slot.
\* (a take that leaves the closure in the slot)
TakeClone(slot) == [value |-> slot, left |-> slot]

Take(slot) == [value |-> slot, left |-> None]

\* setup_subprocess(pts)? returned Err: spawn returns it at once.
\* (a spawn that composes the pre-exec closure before it checks the error)
SpawnSetupFailsLate(pty) ==
    LET taken == Take(pre_exec)
        i2 == ComposePreExec(inner, pty, taken.value, pre_exec_set)
    IN  /\ ret' = "ErrSetup"
        /\ err' = FromErr(SetupFailure)
        /\ child' = NoChild
        /\ inner' = i2
        /\ pre_exec' = taken.left
        /\ pre_exec_set' = TRUE
        /\ since' = {}
        /\ call' = [NoCall EXCEPT !.pty = pty, !.custom = pre_exec,
                                  !.hooks = Len(i2.pre_exec)
                                            - Len(inner.pre_exec)]
        /\ UNCHANGED <<npast, invoked>>

\* (a spawn that takes the pending closure before it checks the error)
SpawnSetupFailsTakes(pty) ==
    /\ ret' = "ErrSetup"
    /\ err' = FromErr(SetupFailure)
    /\ child' = NoChild
    /\ call' = [NoCall EXCEPT !.pty = pty, !.custom = pre_exec]
    /\ pre_exec' = Take(pre_exec).left
    /\ UNCHANGED <<pre_exec_set, inner, npast, invoked, since>>

SpawnSetupFails(pty) ==
    /\ ret' = "ErrSetup"
    /\ err' = FromErr(SetupFailure)
    /\ child' = NoChild
    /\ call' = [NoCall EXCEPT !.pty = pty, !.custom = pre_exec]
    /\ UNCHANGED <<pre_exec_set, pre_exec, inner, npast, invoked, since>>

\* The rest of spawn once the three handles exist.
SpawnPastSetup(pty) ==
    LET taken == Take(pre_exec)
        i1 == ApplyStdio(inner, pty)
        i2 == ComposePreExec(i1, pty, taken.value, pre_exec_set)
    IN  /\ inner' = i2
        /\ pre_exec' = taken.left
        /\ pre_exec_set' = TRUE
        /\ \E sys \in SysOutcomes, bad \in HookOutcomes(i2) :
              child' = InnerSpawnChild(i2, sys, bad[1], bad[2])
        /\ ret' = InnerSpawnRet(child')
        /\ err' = IF ret' = "Ok" THEN NoErr
                  ELSE FromErr(InnerSpawnErr(child'))
        /\ invoked' = invoked \cup Customs(child'.trace)
        /\ since' = {}
        /\ npast' = npast + 1
        /\ call' = [pty |-> pty, custom |-> pre_exec,
                    stdio |-> {s \in Streams : i1[s] # inner[s]},
                    hooks |-> Len(i2.pre_exec) - Len(inner.pre_exec),
                    delegated |-> TRUE]

Spawn(pty) ==
    /\ nspawn < MaxSpawn
    /\ nspawn' = nspawn + 1
    /\ UNCHANGED <<stdin, stdout, stderr, nreg, ncfg, replaced>>
    /\ \/ SpawnSetupFails(pty)
       \/ SpawnPastSetup(pty)

\* --------------------------------------- pass-through configuration calls
\* What the delegate stores for each of them.
InnerArg(in, a) == [in EXCEPT !.args = Append(in.args, a)]

RECURSIVE InnerArgs(_, _)
InnerArgs(in, as) ==
    IF as = <<>> THEN in
    ELSE InnerArgs(InnerArg(in, Head(as)), Tail(as))

InnerEnv(in, k, v) == [in EXCEPT !.env[k] = v]

RECURSIVE InnerEnvs(_, _)
InnerEnvs(in, kvs) ==
    IF kvs = <<>> THEN in
    ELSE InnerEnvs(InnerEnv(in, Head(kvs)[1], Head(kvs)[2]), Tail(kvs))

InnerEnvRemove(in, k) ==
    [in EXCEPT !.env[k] = IF in.env_clear THEN "unset" ELSE "removed"]

InnerEnvClear(in) ==
    [in EXCEPT !.env_clear = TRUE, !.env = [k \in EnvKeys |-> "unset"]]

InnerCurrentDir(in, dir) == [in EXCEPT !.cwd = dir]
InnerUid(in, id)  == [in EXCEPT !.uid = id]
InnerGid(in, id)  == [in EXCEPT !.gid = id]
InnerArg0(in, a)  == [in EXCEPT !.arg0 = a]

\* Each call forwards to the delegate and touches nothing else of self.
PassThrough(in) ==
    /\ ncfg < MaxCfg
    /\ ncfg' = ncfg + 1
    /\ inner' = in
    /\ UNCHANGED <<stdin, stdout, stderr, pre_exec_set, pre_exec, call, ret,
                   err, child, nspawn, nreg, npast, invoked, since,
                   replaced>>

\* (an arg0 that forwards to the delegate's stdin and marks it configured)
Arg0AsStdin(a) ==
    /\ ncfg < MaxCfg
    /\ ncfg' = ncfg + 1
    /\ stdin' = TRUE
    /\ inner' = InnerStdio(inner, "stdin", UserStdio("null"))
    /\ UNCHANGED <<stdout, stderr, pre_exec_set, pre_exec, call, ret,
                   err, child, nspawn, nreg, npast, invoked, since,
                   replaced>>

Arg(a)          == PassThrough(InnerArg(inner, a))
Args(as)        == PassThrough(InnerArgs(inner, as))
Env(k, v)       == PassThrough(InnerEnv(inner, k, v))
Envs(kvs)       == PassThrough(InnerEnvs(inner, kvs))
EnvRemove(k)    == PassThrough(InnerEnvRemove(inner, k))
EnvClear        == PassThrough(InnerEnvClear(inner))
CurrentDir(dir) == PassThrough(InnerCurrentDir(inner, dir))
Uid(id)         == PassThrough(InnerUid(inner, id))
Gid(id)         == PassThrough(InnerGid(inner, id))
Arg0(a)         == PassThrough(InnerArg0(inner, a))

\* ---------------------------------------------------------------- behaviour
Next ==
    \/ \E cfg \in UserCfg : Stdin(cfg)
    \/ \E cfg \in UserCfg : Stdout(cfg)
    \/ \E cfg \in UserCfg : Stderr(cfg)
    \/ \E f \in FnIds : PreExec(f)
    \/ \E pty \in Ptys : Spawn(pty)

Spec == Init /\ [][Next]_vars

\* The same builder when the caller also makes pass-through calls.
CfgCall ==
    \/ \E a \in ArgVals : Arg(a)
    \/ \E a, b \in ArgVals : Args(<<a, b>>)
    \/ \E k \in EnvKeys, v \in EnvVals : Env(k, v)
    \/ \E k \in EnvKeys, v \in EnvVals : Envs(<<(<<k, v>>)>>)
    \/ \E k \in EnvKeys : EnvRemove(k)
    \/ EnvClear
    \/ \E dir \in Dirs : CurrentDir(dir)
    \/ \E id \in Ids : Uid(id)
    \/ \E id \in Ids : Gid(id)
    \/ \E a \in ArgVals : Arg0(a)

\* Here the caller keeps to one pty and configures no stream but stdin.
CfgPtys == {CHOOSE p \in Ptys : TRUE}

NextCfg ==
    \/ CfgCall
    \/ \E cfg \in UserCfg : Stdin(cfg)
    \/ \E f \in FnIds : PreExec(f)
    \/ \E pty \in CfgPtys : Spawn(pty)

SpecCfg == Init /\ [][NextCfg]_vars

TypeOK ==
    /\ stdin \in BOOLEAN /\ stdout \in BOOLEAN /\ stderr \in BOOLEAN
    /\ pre_exec_set \in BOOLEAN
    /\ pre_exec \in {None} \cup FnIds
    /\ nspawn \in 0..MaxSpawn /\ nreg \in 0..MaxReg
    /\ ncfg \in 0..MaxCfg /\ npast \in 0..nspawn
    /\ ret \in {"none", "Ok", "ErrSetup", "ErrSpawn"}
    /\ invoked \subseteq FnIds /\ replaced \subseteq FnIds
    /\ since \subseteq FnIds

\* ------------------------------------------------------------------ helpers
Flag(s) == IF s = "stdin" THEN stdin ELSE IF s = "stdout" THEN stdout
           ELSE stderr

Hooks == inner.pre_exec

\* The calls one installed closure made in the latest child.
CallsOf(j) == SelectSeq(child.trace, LAMBDA e : e.hook = j)

\* ------------------------------------------------------------------- claims

\* C1: a spawn that gets past stdio-handle derivation installs the handle
\* derived from its pty on a stream exactly when the caller never called the
\* explicit operation for that stream; an explicitly configured stream keeps
\* the caller's Stdio, which is not the pty, in the delegate and in the child.
C1_StdioDefaultingPerStream ==
    [][(nspawn' # nspawn /\ ret' # "ErrSetup") =>
         \A s \in Streams :
            /\ (s \in call'.stdio) <=> ~Flag(s)
            /\ ~Flag(s) => /\ inner'[s] = PtyStdio(call'.pty, nspawn')
                           /\ child'.exists => child'[s] = inner'[s]
            /\ Flag(s) => /\ inner'[s] = inner[s]
                          /\ inner'[s].kind \in UserCfg
                          /\ child'.exists => child'[s] = inner[s]]_vars

\* C1 witness: stderr alone was configured, and the child got the pty on
\* stdin and stdout and the caller's Stdio on stderr.
C1_Witness ==
    /\ call.delegated /\ call.stdio = {"stdin", "stdout"}
    /\ child.exists
    /\ child.stdin.kind = "pty" /\ child.stdout.kind = "pty"
    /\ child.stderr.kind = "null"

\* C2: whenever spawn(pty) returns a child, the session-leader setup that ran
\* in that child is the one built from the pty of this call, so the child
\* leads a session whose controlling terminal is that pty.
C2_ControllingTerminalIsGivenPty ==
    ret = "Ok" =>
        /\ child.leader /\ child.ctty = call.pty
        /\ \A i \in DOMAIN child.trace :
              child.trace[i].fn = "session_leader"
                  => child.trace[i].arg = call.pty

\* C3: in every child the first call is session-leader setup, and no user
\* function runs before a session-leader setup.
C3_SetupBeforeUserNeverInterleaved ==
    child.exists =>
        /\ child.trace # <<>>
        /\ child.trace[1].fn = "session_leader"
        /\ \A i, j \in DOMAIN child.trace :
              (i < j /\ child.trace[i].fn = "custom")
                  => child.trace[j].fn # "session_leader"

\* C4: the delegate's pre-exec install operation is invoked at most once in
\* the builder's life.
C4_OneInstallEver == Len(Hooks) <= 1

\* C5: the closure spawn composes around a pending user function calls
\* session-leader setup first; if setup fails it returns that failure at once
\* and the user function is not invoked; if setup succeeds the user function
\* is invoked next and its result is the closure's result.
C5_ComposedSetupThenUser ==
    /\ (call.delegated /\ call.custom # None)
          => Hooks[Len(Hooks)] = Composed(call.pty, call.custom)
    /\ child.exists =>
          \A j \in DOMAIN Hooks :
             Hooks[j].kind = "composed" =>
                LET c   == Hooks[j]
                    evs == CallsOf(j)
                    end == child.trace[Len(child.trace)]
                IN  \/ evs = <<>>
                    \/ /\ evs = <<Ev(j, "session_leader", c.pts, FALSE)>>
                       /\ end = evs[1]
                       /\ ret = "ErrSpawn"
                    \/ /\ Len(evs) = 2
                       /\ evs[1] = Ev(j, "session_leader", c.pts, TRUE)
                       /\ evs[2].fn = "custom" /\ evs[2].arg = c.custom
                       /\ evs[2].ok => (j < Len(Hooks) => CallsOf(j + 1) # <<>>)
                       /\ ~evs[2].ok => (end = evs[2] /\ ret = "ErrSpawn")

\* C5 witness: setup failed inside a composed closure, whose user function
\* was then not called.
C5_Witness ==
    /\ child.exists /\ call.custom # None
    /\ CallsOf(Len(Hooks)) =
           <<Ev(Len(Hooks), "session_leader", call.pty, FALSE)>>

\* C6: a user function that was replaced by a later pre_exec call while it
\* was pending is never composed into a closure and never invoked in any
\* child; the function a spawn composes is the one registered last.
C6_LastRegistrationWins ==
    /\ replaced \cap invoked = {}
    /\ \A j \in DOMAIN Hooks : Hooks[j].custom \notin replaced
    /\ pre_exec \notin replaced
    /\ since # {} => pre_exec = nreg
    /\ (call.delegated /\ call.custom # None) =>
          Hooks[Len(Hooks)].custom = call.custom

\* C6 witness: two registrations, then a spawn and a later spawn whose
\* children ran the second function only.
C6_Witness ==
    /\ replaced = {1} /\ invoked = {2}
    /\ nspawn = 2 /\ ret = "Ok"
    /\ Customs(child.trace) = {2}

\* C7: when a user function is pending at a spawn call, every child in which
\* that function succeeded had session-leader setup for this call's pty
\* succeed right before it, and a spawn that returns a child returns one in
\* which the function did succeed.
C7_UserSuccessImpliesBothEffects ==
    (call.delegated /\ call.custom # None) =>
        LET n  == Len(Hooks)
            tr == child.trace
        IN  /\ \A i \in DOMAIN tr :
                  tr[i] = Ev(n, "custom", call.custom, TRUE) =>
                      /\ i > 1
                      /\ tr[i - 1] = Ev(n, "session_leader", call.pty, TRUE)
                      /\ child.leader /\ child.ctty = call.pty
            /\ ret = "Ok" =>
                  \E i \in DOMAIN tr :
                      tr[i] = Ev(n, "custom", call.custom, TRUE)

\* C7 witness: a second spawn, with a function registered after the first,
\* returned a child in which that function ran.
C7_Witness ==
    /\ nspawn = 2 /\ Len(Hooks) = 2
    /\ call.custom # None /\ ret = "Ok"
    /\ call.custom \in Customs(child.trace)

\* C8: when a user function fails in the child, session-leader setup of the
\* same closure has already succeeded there, the child never reaches exec
\* and spawn returns an error.
C8_UserFailureAfterSetup ==
    \A i \in DOMAIN child.trace :
        (child.trace[i].fn = "custom" /\ ~child.trace[i].ok) =>
            /\ i > 1
            /\ child.trace[i - 1] =
                  Ev(child.trace[i].hook, "session_leader",
                     Hooks[child.trace[i].hook].pts, TRUE)
            /\ child.leader /\ child.ctty # 0
            /\ ~child.execd
            /\ ret = "ErrSpawn"

\* C8 witness: the user function failed in the child.
C8_Witness ==
    /\ child.exists /\ ret = "ErrSpawn"
    /\ \E i \in DOMAIN child.trace :
          child.trace[i].fn = "custom" /\ ~child.trace[i].ok

\* C9: a spawn call that gets past stdio-handle derivation leaves the pending
\* slot empty and the already-composed flag true, whatever the delegate's
\* spawn returns; no user function is held by two installed closures, and a
\* pending function is held by none.
C9_SlotEmptyFlagSetAfterSpawn ==
    [][/\ (nspawn' # nspawn /\ ret' # "ErrSetup")
             => (pre_exec' = None /\ pre_exec_set')
       /\ \A j, k \in DOMAIN Hooks' :
             (Hooks'[j].custom # None /\ Hooks'[j].custom = Hooks'[k].custom)
                 => j = k
       /\ \A j \in DOMAIN Hooks' :
             pre_exec' # None => Hooks'[j].custom # pre_exec']_vars

\* C9 witness: the delegate's spawn failed after a user function was
\* composed, and the slot is empty and the flag set.
C9_Witness ==
    /\ call.delegated /\ call.custom # None /\ ret = "ErrSpawn"
    /\ pre_exec = None /\ pre_exec_set
    /\ Hooks[Len(Hooks)].custom = call.custom

\* C10: a spawn call whose stdio-handle derivation fails returns that error,
\* creates no process, does not invoke the delegate's spawn, and installs no
\* stdio handle and no pre-exec function into the delegate.
C10_SetupFailureInstallsNothing ==
    [][(nspawn' # nspawn /\ ret' = "ErrSetup") =>
          /\ inner' = inner
          /\ ~child'.exists
          /\ ~call'.delegated
          /\ call'.stdio = {} /\ call'.hooks = 0]_vars

\* C10 witness: derivation failed with a user function pending and no
\* stream configured, so a spawn that went on would have installed both.
C10_Witness ==
    /\ ret = "ErrSetup" /\ call.custom # None
    /\ ~stdin /\ ~stdout /\ ~stderr
    /\ ~child.exists

\* The first call that failed in a child that ran its closures.
FirstFailed(tr) ==
    LET bad == {i \in DOMAIN tr : ~tr[i].ok}
    IN  CHOOSE i \in bad : \A k \in bad : i <= k

\* C11: a spawn call returns either a child that reached exec and no error,
\* or one error and no usable child; the error is that of stdio-handle
\* derivation if that failed (the delegate is then not called), otherwise
\* the delegate's: the fork failure, else the first call that failed in the
\* child's pre-exec closures, else the exec failure.
C11_OneOutcomeFirstFailure ==
    /\ nspawn > 0 => ret \in {"Ok", "ErrSetup", "ErrSpawn"}
    /\ ret = "Ok" =>
          /\ err = NoErr
          /\ child.exists /\ child.execd /\ TraceOk(child.trace)
    /\ ret = "ErrSetup" =>
          /\ err = FromErr(SetupFailure)
          /\ ~call.delegated /\ ~child.exists
    /\ ret = "ErrSpawn" =>
          /\ call.delegated
          /\ ~child.execd
          /\ err.kind = "Io" /\ err.source.from = "inner.spawn"
          /\ ~child.exists => err.source.fn = "fork"
          /\ (child.exists /\ ~TraceOk(child.trace)) =>
                LET i == FirstFailed(child.trace)
                IN  /\ err.source.fn = child.trace[i].fn
                    /\ err.source.hook = child.trace[i].hook
                    /\ i = Len(child.trace)
          /\ (child.exists /\ TraceOk(child.trace)) =>
                err.source.fn = "exec"

\* C11 witness: a second spawn whose child was stopped by its second
\* installed closure, and spawn returned that closure's error.
C11_Witness ==
    /\ ret = "ErrSpawn" /\ child.exists /\ Len(Hooks) = 2
    /\ err.source.hook = 2
    /\ err.source.fn = "custom"

\* What a spawn wires into the child: the delegate's three Stdio values and
\* its installed pre-exec closures.
Wiring(in) ==
    [stdin |-> in.stdin, stdout |-> in.stdout, stderr |-> in.stderr,
     pre_exec |-> in.pre_exec]

\* What a spawn(pty) made in the current state would wire.
NextWiring(pty) ==
    Wiring(ComposePreExec(ApplyStdio(inner, pty), pty, Take(pre_exec).value,
                          pre_exec_set))

\* C12: a pass-through configuration call leaves the three explicit-stdio
\* flags, the pending slot, the already-composed flag and the delegate's
\* stdio and pre-exec closures as they were, and with them what a later
\* spawn would install.
C12_PassThroughFrame ==
    [][ncfg' # ncfg =>
          /\ stdin' = stdin /\ stdout' = stdout /\ stderr' = stderr
          /\ pre_exec' = pre_exec /\ pre_exec_set' = pre_exec_set
          /\ Wiring(inner') = Wiring(inner)
          /\ \A pty \in Ptys : NextWiring(pty)' = NextWiring(pty)
          /\ UNCHANGED <<call, ret, err, child>>]_vars

\* C12 witness: a pass-through call was made on a builder that has spawned,
\* has a stream configured and has a user function pending.
C12_Witness ==
    /\ ncfg = 1 /\ inner.cwd = "d"
    /\ call.delegated /\ pre_exec_set
    /\ stdin /\ pre_exec # None

\* No pre_exec call was made since the latest spawn call returned.
NoRegSinceLastCall ==
    /\ nspawn > 0
    /\ IF call.delegated THEN pre_exec = None ELSE pre_exec = call.custom

\* C13 as stated: a spawn call that follows another spawn call with no
\* pre_exec call in between installs no pre-exec closure.
C13_RespawnInstallsNothing ==
    [][(nspawn' # nspawn /\ NoRegSinceLastCall) => Hooks' = Hooks]_vars

\* C13 as amended: the first spawn call that gets past stdio-handle
\* derivation installs one closure, session-leader setup alone or followed
\* by the pending user function; once a spawn call has got past derivation,
\* a spawn call made with no pre_exec call since then installs nothing.
C13_RespawnAfterCompositionInstallsNothing ==
    [][/\ (nspawn' # nspawn /\ npast = 0 /\ npast' = 1) =>
             Hooks' = <<IF pre_exec # None
                        THEN Composed(call'.pty, pre_exec)
                        ELSE SessionLeader(call'.pty)>>
       /\ (nspawn' # nspawn /\ npast > 0 /\ since = {}) =>
             /\ Hooks' = Hooks
             /\ call'.hooks = 0]_vars

\* C13 witness: a function was registered, then two spawn calls got past
\* derivation, and the delegate holds the one closure of the first.
C13_Witness ==
    /\ npast = 2 /\ nreg = 1
    /\ Hooks = <<Composed(Hooks[1].pts, 1)>>
    /\ call.hooks = 0 /\ call.delegated

\* C14: pre_exec_set is true exactly when some spawn call has got past
\* stdio-handle derivation, and it is never reset; while it is true the
\* delegate holds at least one closure and the first closure begins with
\* session-leader setup, so the delegate's spawn is never invoked without
\* one and every child's first call is session-leader setup.
C14_FlagMeansSetupInstalled ==
    /\ pre_exec_set <=> npast > 0
    /\ pre_exec_set =>
          /\ Len(Hooks) >= 1
          /\ \A sf, cf \in BOOLEAN :
                RunClosure(1, Hooks[1], sf, cf)[1].fn = "session_leader"
    /\ call.delegated => (pre_exec_set /\ Hooks # <<>>)
    /\ child.exists =>
          /\ child.trace # <<>>
          /\ child.trace[1].fn = "session_leader"
          /\ child.trace[1].hook = 1

\* C14 witness: after two spawn calls got past derivation the flag is set
\* and the child's first call was the setup of the first closure, composed
\* around a user function.
C14_Witness ==
    /\ pre_exec_set /\ npast = 2
    /\ child.exists /\ Hooks[1].kind = "composed"
    /\ child.trace[1] = Ev(1, "session_leader", Hooks[1].pts, TRUE)

\* C15: a spawn call that fails at stdio-handle derivation changes nothing
\* of the builder: flags, already-composed flag, delegate and pending user
\* function; the next spawn call that gets past derivation then composes
\* that function and the child runs it right after session-leader setup.
C15_SetupFailureKeepsBuilder ==
    [][/\ (nspawn' # nspawn /\ ret' = "ErrSetup") =>
             /\ stdin' = stdin /\ stdout' = stdout /\ stderr' = stderr
             /\ pre_exec_set' = pre_exec_set
             /\ inner' = inner
             /\ pre_exec' = pre_exec
       /\ (nspawn' # nspawn /\ ret = "ErrSetup" /\ ret' # "ErrSetup"
           /\ call.custom # None /\ pre_exec = call.custom) =>
             LET n == Len(Hooks')
             IN  /\ n = Len(Hooks) + 1
                 /\ Hooks'[n] = Composed(call'.pty, call.custom)
                 /\ \A i \in DOMAIN child'.trace :
                       child'.trace[i].fn = "custom"
                       /\ child'.trace[i].arg = call.custom
                       => /\ i > 1
                          /\ child'.trace[i - 1] =
                                Ev(n, "session_leader", call'.pty, TRUE)
                 /\ ret' = "Ok" => call.custom \in Customs(child'.trace)]_vars

\* C15 witness: derivation failed on a builder that had spawned before and
\* has a stream configured; the user function pending at the call is still
\* pending.
C15_Witness ==
    /\ ret = "ErrSetup" /\ npast = 1
    /\ call.custom # None /\ pre_exec = call.custom
    /\ stdin /\ pre_exec_set /\ Len(Hooks) = 1

\* C16: each explicit-stdio flag starts false, is never reset, and is set
\* only by a step that stores a caller's Stdio for that stream in the
\* delegate and leaves the other two streams alone; spawn never changes a
\* flag, never overwrites a flagged stream, and every spawn call that gets
\* past stdio-handle derivation gives each unflagged stream the handle
\* duplicated from its pty by that very call.
C16_FlagsMonotoneOwned ==
    /\ (~stdin /\ ~stdout /\ ~stderr)
    /\ [][/\ \A s \in Streams : Flag(s) => Flag(s)'
          /\ \A s \in Streams :
                (Flag(s)' # Flag(s)) =>
                   /\ nspawn' = nspawn /\ nreg' = nreg /\ ncfg' = ncfg
                   /\ inner'[s].kind \in UserCfg
                   /\ \A t \in Streams \ {s} :
                         Flag(t)' = Flag(t) /\ inner'[t] = inner[t]
          /\ nspawn' # nspawn =>
                \A s \in Streams :
                   /\ Flag(s)' = Flag(s)
                   /\ Flag(s) => (inner'[s] = inner[s]
                                  /\ inner'[s].kind # "pty")
          /\ (nspawn' # nspawn /\ ret' # "ErrSetup") =>
                \A s \in Streams :
                   ~Flag(s) => /\ inner'[s] = PtyStdio(call'.pty, nspawn')
                               /\ inner'[s] # inner[s]
                               /\ child'.exists => child'[s] = inner'[s]]_vars

\* C16 witness: two spawn calls got past derivation with stdin configured
\* and stdout not; stdin still holds the caller's Stdio and stdout holds the
\* handle duplicated by the second call.
C16_Witness ==
    /\ npast = 2 /\ nspawn = 2
    /\ stdin /\ ~stdout
    /\ inner.stdin.kind = "null" /\ child.stdin.kind = "null"
    /\ inner.stdout = PtyStdio(call.pty, 2)
    /\ child.stdout = inner.stdout

====
